---------------------------- MODULE Spec2Model ----------------------------
(***************************************************************************)
(* The HTTP backend bootstrap of src/index.js (variant "index.js") and of  *)
(* src/unnamed/part_000 (variant "part_000"): environment check,           *)
(* middleware chain, route mounting, database connect, listen, and the     *)
(* handling of requests by the Express layer stack that the bootstrap      *)
(* builds.                                                                 *)
(*                                                                         *)
(* Three specifications share the variables:                               *)
(*   Spec      bootstrap, then requests drawn from the full input domain,  *)
(*             one request in flight at a time;                            *)
(*   SpecConc  bootstrap, then up to MaxConc requests in flight at once,   *)
(*             drawn from a smaller list of requests;                      *)
(*   SpecBody  the body-capture callback (verify) on every byte sequence   *)
(*             of at most MaxBodyLen bytes over ByteAlphabet.              *)
(***************************************************************************)
EXTENDS Integers, Sequences, FiniteSets, TLC

VARIABLES
    variant,      \* which bootstrap file runs
    env,          \* process.env: name -> truthy (set and non-empty)
    phase,        \* position of the bootstrap script
    exitCode,     \* status passed to process.exit, -1 while the process lives
    dbState,      \* the promise returned by connectDb()
    listenerOpen, \* app.listen has been called
    stack,        \* the Express layer stack, in registration order
    bootLog,      \* console lines written by the bootstrap
    reqs,         \* slot -> request in flight (or Idle)
    wire,         \* SpecBody: the bytes received on the wire
    rawBody,      \* SpecBody: req.rawBody, a string as a sequence of code points
    sigInput,     \* SpecBody: the bytes a downstream signature check hashes
    bodyStage     \* SpecBody: "off", "received", "captured", "checked"

vars == << variant, env, phase, exitCode, dbState, listenerOpen, stack,
           bootLog, reqs, wire, rawBody, sigInput, bodyStage >>

bootVars == << variant, env, phase, exitCode, dbState, listenerOpen, stack, bootLog >>
bodyVars == << wire, rawBody, sigInput, bodyStage >>

-----------------------------------------------------------------------------
(* Bounds *)

MaxConc == 2
MaxBodyLen == 3

Slots == 1..MaxConc

-----------------------------------------------------------------------------
(* Environment *)

Variants == {"index.js", "part_000"}

EnvNames == {"CLERK_SECRET_KEY", "VITE_CLERK_SECRET_KEY",
             "VITE_CLERK_PUBLISHABLE_KEY", "CLERK_PUBLISHABLE_KEY",
             "FRONTEND_URL", "NODE_ENV"}

\* The value of FRONTEND_URL when it is set.
FrontendOrigin == "https://app.example"

\* The value of NODE_ENV when it is set.
NodeEnvName == "production"

\* The names the environment check tests, in the order it tests them.
RequiredEnvSecretOnly(v) ==
    IF v = "index.js" THEN << "CLERK_SECRET_KEY" >>
    ELSE << "VITE_CLERK_SECRET_KEY" >>

RequiredEnv(v) ==
    IF v = "index.js" THEN << "CLERK_SECRET_KEY" >>
    ELSE << "VITE_CLERK_SECRET_KEY", "VITE_CLERK_PUBLISHABLE_KEY" >>

\* The first required name that is missing, or "" when none is.
RECURSIVE FirstMissing(_, _)
FirstMissing(names, e) ==
    IF names = << >> THEN ""
    ELSE IF ~e[Head(names)] THEN Head(names)
    ELSE FirstMissing(Tail(names), e)

-----------------------------------------------------------------------------
(* The layer stack *)

Layer(kind, mount, exact) == [kind |-> kind, mount |-> mount, exact |-> exact]

Root == << >>

\* app.use(...) and app.get("/favicon.ico") up to the CORS registration.
MiddlewareNoClerk(v) ==
    (IF v = "index.js"
     THEN << Layer("helmet", Root, FALSE),
             Layer("favicon", << "favicon.ico" >>, TRUE) >>
     ELSE << >>)
    \o << Layer("json", Root, FALSE),
          Layer("cookieParser", Root, FALSE),
          Layer("cors", Root, FALSE) >>

Middleware(v) ==
    (IF v = "index.js"
     THEN << Layer("helmet", Root, FALSE),
             Layer("favicon", << "favicon.ico" >>, TRUE) >>
     ELSE << >>)
    \o << Layer("json", Root, FALSE),
          Layer("cookieParser", Root, FALSE),
          Layer("clerk", Root, FALSE),
          Layer("cors", Root, FALSE) >>

\* /health, the four mounted routers and /api/products.
RoutesPostUngated(v) ==
    << Layer("health", << "health" >>, TRUE),
       Layer("router", << "api", "auth" >>, FALSE),
       Layer("gate", << "api", "period" >>, FALSE),
       Layer("router", << "api", "period" >>, FALSE),
       Layer("router", << "api", "post" >>, FALSE),
       Layer("router", << "api", "spotify" >>, FALSE),
       Layer("products", << "api", "products" >>, TRUE) >>

Routes(v) ==
    << Layer("health", << "health" >>, TRUE),
       Layer("router", << "api", "auth" >>, FALSE),
       Layer("gate", << "api", "period" >>, FALSE),
       Layer("router", << "api", "period" >>, FALSE),
       Layer("gate", << "api", "post" >>, FALSE),
       Layer("router", << "api", "post" >>, FALSE),
       Layer("router", << "api", "spotify" >>, FALSE),
       Layer("products", << "api", "products" >>, TRUE) >>

-----------------------------------------------------------------------------
(* Bootstrap *)

\* if (!process.env.X) { console.error(...); process.exit(1); }
EnvCheck ==
    /\ phase = "start"
    /\ LET missing == FirstMissing(RequiredEnv(variant), env) IN
       IF missing # ""
       THEN /\ phase' = "fatal"
            /\ exitCode' = 1
            /\ bootLog' = Append(bootLog, "Missing: " \o missing)
       ELSE /\ phase' = "envOk"
            /\ exitCode' = exitCode
            /\ bootLog' = Append(bootLog, "keys found")
    /\ UNCHANGED << variant, env, dbState, listenerOpen, stack, reqs >>
    /\ UNCHANGED bodyVars

RegisterMiddleware ==
    /\ phase = "envOk"
    /\ stack' = stack \o Middleware(variant)
    /\ phase' = "middlewareReady"
    /\ UNCHANGED << variant, env, exitCode, dbState, listenerOpen, bootLog, reqs >>
    /\ UNCHANGED bodyVars

MountRoutes ==
    /\ phase = "middlewareReady"
    /\ stack' = stack \o Routes(variant)
    /\ phase' = "routesMounted"
    /\ UNCHANGED << variant, env, exitCode, dbState, listenerOpen, bootLog, reqs >>
    /\ UNCHANGED bodyVars

\* connectDb() is called; the promise is pending.
CallConnectDb ==
    /\ phase = "routesMounted"
    /\ dbState' = "pending"
    /\ phase' = "connectingDb"
    /\ UNCHANGED << variant, env, exitCode, listenerOpen, stack, bootLog, reqs >>
    /\ UNCHANGED bodyVars

\* The database collaborator settles the promise.
DbResolves ==
    /\ dbState = "pending"
    /\ dbState' = "connected"
    /\ UNCHANGED << variant, env, phase, exitCode, listenerOpen, stack, bootLog, reqs >>
    /\ UNCHANGED bodyVars

DbRejects ==
    /\ dbState = "pending"
    /\ dbState' = "failed"
    /\ UNCHANGED << variant, env, phase, exitCode, listenerOpen, stack, bootLog, reqs >>
    /\ UNCHANGED bodyVars

\* A bootstrap that calls app.listen without chaining it on the promise.
ListenWithoutWaiting ==
    /\ phase = "connectingDb"
    /\ listenerOpen' = TRUE
    /\ phase' = "listening"
    /\ bootLog' = Append(bootLog, "Server running")
    /\ UNCHANGED << variant, env, exitCode, dbState, stack, reqs >>
    /\ UNCHANGED bodyVars

\* .then(() => { app.listen(PORT, ...) })
OnDbConnected ==
    /\ phase = "connectingDb"
    /\ dbState = "connected"
    /\ listenerOpen' = TRUE
    /\ phase' = "listening"
    /\ bootLog' = Append(bootLog, "Server running")
    /\ UNCHANGED << variant, env, exitCode, dbState, stack, reqs >>
    /\ UNCHANGED bodyVars

\* .catch((error) => { console.error(...) })
OnDbFailed ==
    /\ phase = "connectingDb"
    /\ dbState = "failed"
    /\ phase' = "dbFailedLogged"
    /\ bootLog' = Append(bootLog, "MongoDB connection failed")
    /\ UNCHANGED << variant, env, exitCode, dbState, listenerOpen, stack, reqs >>
    /\ UNCHANGED bodyVars

-----------------------------------------------------------------------------
(* Requests *)

Undefined == "<undefined>"   \* a query parameter or environment value that is not there
NoOrigin == "<no-origin>"    \* the request has no Origin header
NoHeader == "<no-header>"    \* the response has no Access-Control-Allow-Origin

Methods == {"GET", "POST", "OPTIONS"}
Paths == { << "health" >>, << "favicon.ico" >>, << "api", "auth", "login" >>,
           << "api", "period", "log" >>, << "api", "post", "1" >>,
           << "api", "spotify", "me" >>, << "api", "products" >> }
Origins == {NoOrigin, "http://localhost:5173", FrontendOrigin, "https://evil.example"}
Creds == {"none", "invalid", "valid"}
Bodies == {"none", "json", "malformed"}
Queries == {Undefined, "", "tampons"}

NoBody == [kind |-> "none", message |-> "", clerkConfigured |-> FALSE,
           hasPublishable |-> FALSE, publishableKeyLoaded |-> FALSE,
           nodeEnv |-> Undefined, products |-> << >>, error |-> ""]

NoOutcome == [kind |-> "none", has |-> FALSE, list |-> << >>]

\* What getJson can do: throw, resolve to null, or resolve to an object with or
\* without a shopping_results list.
Outcomes ==
    { [kind |-> "throw", has |-> FALSE, list |-> << >>],
      [kind |-> "null", has |-> FALSE, list |-> << >>],
      [kind |-> "object", has |-> FALSE, list |-> << >>],
      [kind |-> "object", has |-> TRUE, list |-> << >>],
      [kind |-> "object", has |-> TRUE, list |-> << "pads" >>] }

NewRequest(m, p, q, o, c, b) ==
    [st |-> "active", method |-> m, path |-> p, q |-> q, origin |-> o,
     cred |-> c, body |-> b,
     idx |-> 0, trace |-> << >>,
     csp |-> FALSE, rawBodySet |-> FALSE, parsed |-> FALSE, cookies |-> FALSE,
     auth |-> "unset", acao |-> NoHeader,
     status |-> 0, by |-> "none", resBody |-> NoBody,
     handlerRan |-> FALSE, calls |-> << >>, outcome |-> NoOutcome,
     logged |-> FALSE]

Idle == [NewRequest("GET", Root, Undefined, NoOrigin, "none", "none") EXCEPT !.st = "idle"]

IsPrefix(p, path) ==
    /\ Len(p) <= Len(path)
    /\ \A i \in 1..Len(p) : p[i] = path[i]

\* app.get(path) matches GET on exactly that path; app.use(prefix) any method
\* on any path under the prefix.
Matches(layer, r) ==
    IF layer.exact
    THEN r.method = "GET" /\ r.path = layer.mount
    ELSE IsPrefix(layer.mount, r.path)

\* The index of the first layer from j on that handles r, 0 when the stack is
\* exhausted.
RECURSIVE NextIdx(_, _)
NextIdx(r, j) ==
    IF j > Len(stack) THEN 0
    ELSE IF Matches(stack[j], r) THEN j
    ELSE NextIdx(r, j + 1)

\* The request in slot s is about to enter a layer of this kind.
At(s, kind) ==
    /\ phase = "listening"
    /\ reqs[s].st = "active"
    /\ reqs[s].idx # 0
    /\ stack[reqs[s].idx].kind = kind

\* The layer ran and called next().
Passed(r, kind) ==
    [r EXCEPT !.idx = NextIdx(r, r.idx + 1), !.trace = Append(@, kind)]

\* The layer ran and ended the response.
Responded(r, kind, status, body) ==
    [r EXCEPT !.trace = Append(@, kind),
              !.st = "done", !.status = status, !.by = kind, !.resBody = body]

ReqStep(s, r) ==
    /\ reqs' = [reqs EXCEPT ![s] = r]
    /\ UNCHANGED bootVars
    /\ UNCHANGED bodyVars

\* Express starts a request at the first layer that handles it.
Routed(r) == [r EXCEPT !.idx = NextIdx(r, 1)]

\* The request context of a new request takes the first free slot.
FirstFree(s) ==
    /\ reqs[s].st = "idle"
    /\ \A t \in Slots : t < s => reqs[t].st # "idle"

\* A request arrives while no other is in flight.
Arrive(s) ==
    /\ phase = "listening"
    /\ listenerOpen
    /\ FirstFree(s)
    /\ \A t \in Slots : reqs[t].st = "idle"
    /\ \E m \in Methods, p \in Paths, o \in Origins, c \in Creds, b \in Bodies :
         \E q \in (IF p = << "api", "products" >> THEN Queries ELSE {Undefined}) :
           ReqStep(s, Routed(NewRequest(m, p, q, o, c, b)))

\* The requests of the concurrent specification.
ConcRequests ==
    { NewRequest("GET", << "favicon.ico" >>, Undefined, NoOrigin, "none", "none"),
      NewRequest("GET", << "health" >>, Undefined, NoOrigin, "none", "none"),
      NewRequest("GET", << "api", "period", "log" >>, Undefined, NoOrigin, "none", "none"),
      NewRequest("GET", << "api", "post", "1" >>, Undefined, NoOrigin, "valid", "none"),
      NewRequest("POST", << "api", "auth", "login" >>, Undefined, NoOrigin, "none", "malformed"),
      NewRequest("OPTIONS", << "api", "products" >>, Undefined, "http://localhost:5173", "none", "none"),
      NewRequest("POST", << "health" >>, Undefined, NoOrigin, "none", "json"),
      NewRequest("GET", << "api", "products" >>, "tampons", NoOrigin, "none", "none") }

\* A request arrives, whatever else is in flight.
ArriveConcurrent(s) ==
    /\ phase = "listening"
    /\ listenerOpen
    /\ FirstFree(s)
    /\ \E rq \in ConcRequests : ReqStep(s, Routed(rq))

\* helmet({...}): sets the security headers and goes on.
RunHelmet(s) ==
    /\ At(s, "helmet")
    /\ ReqStep(s, [Passed(reqs[s], "helmet") EXCEPT !.csp = TRUE])

\* app.get("/favicon.ico", (req, res) => res.status(204).end())
RunFavicon(s) ==
    /\ At(s, "favicon")
    /\ ReqStep(s, Responded(reqs[s], "favicon", 204, [NoBody EXCEPT !.kind = "empty"]))

\* express.json({ verify }): a JSON body is captured by verify and then parsed;
\* a body that does not parse ends the request with 400.
RunJson(s) ==
    /\ At(s, "json")
    /\ LET r == reqs[s] IN
       CASE r.body = "none" -> ReqStep(s, Passed(r, "json"))
         [] r.body = "json" ->
              ReqStep(s, [Passed(r, "json") EXCEPT !.rawBodySet = TRUE, !.parsed = TRUE])
         [] r.body = "malformed" ->
              ReqStep(s, [Responded(r, "json", 400, [NoBody EXCEPT !.kind = "parseError"])
                            EXCEPT !.rawBodySet = TRUE])

RunCookieParser(s) ==
    /\ At(s, "cookieParser")
    /\ ReqStep(s, [Passed(reqs[s], "cookieParser") EXCEPT !.cookies = TRUE])

\* clerkMiddleware(): attaches the identity the credential stands for.
RunClerk(s) ==
    /\ At(s, "clerk")
    /\ ReqStep(s, [Passed(reqs[s], "clerk") EXCEPT
                     !.auth = IF reqs[s].cred = "valid" THEN "user" ELSE "signedOut"])

\* origin: [process.env.FRONTEND_URL, ...].filter(Boolean); an unset or empty
\* FRONTEND_URL is the falsy "".
CorsOrigins(e) ==
    SelectSeq(<< IF e["FRONTEND_URL"] THEN FrontendOrigin ELSE "",
                 "http://localhost:5173",
                 "http://localhost:5174",
                 "https://api.clerk.dev" >>,
              LAMBDA x : x # "")

IsOriginAllowed(origin, allowed) ==
    \E i \in 1..Len(allowed) : allowed[i] = origin

\* A CORS layer configured to reflect whatever origin the request declares.
CorsReflectAnyOrigin(e, origin) ==
    IF origin = NoOrigin THEN NoHeader ELSE origin

\* The Access-Control-Allow-Origin value the CORS layer sets for a request.
CorsAllowOrigin(e, origin) ==
    IF IsOriginAllowed(origin, CorsOrigins(e)) THEN origin ELSE NoHeader

\* cors({ origin: [...], ... }): sets the header for an allowed origin; answers
\* an OPTIONS request itself with 204, passes any other request on.
RunCors(s) ==
    /\ At(s, "cors")
    /\ LET r == reqs[s]
           h == CorsAllowOrigin(env, r.origin) IN
       IF r.method = "OPTIONS"
       THEN ReqStep(s, [Responded(r, "cors", 204, [NoBody EXCEPT !.kind = "empty"])
                          EXCEPT !.acao = h])
       ELSE ReqStep(s, [Passed(r, "cors") EXCEPT !.acao = h])

\* The JSON body of GET /health: index.js sends message, clerkConfigured and
\* nodeEnv; part_000 sends message, clerkConfigured and publishableKeyLoaded.
HealthBody(v, e) ==
    [NoBody EXCEPT !.kind = "health",
                   !.message = "Backend running successfully!",
                   !.clerkConfigured = e["CLERK_SECRET_KEY"],
                   !.hasPublishable = (v = "part_000"),
                   !.publishableKeyLoaded =
                       IF v = "part_000" THEN e["CLERK_PUBLISHABLE_KEY"] ELSE FALSE,
                   !.nodeEnv =
                       IF v = "index.js" /\ e["NODE_ENV"] THEN NodeEnvName ELSE Undefined]

RunHealth(s) ==
    /\ At(s, "health")
    /\ ReqStep(s, Responded(reqs[s], "health", 200, HealthBody(variant, env)))

\* requireAuth(): passes a request that carries an identity, answers any other.
RunGate(s) ==
    /\ At(s, "gate")
    /\ LET r == reqs[s] IN
       IF r.auth = "user"
       THEN ReqStep(s, Passed(r, "gate"))
       ELSE ReqStep(s, Responded(r, "gate", 401, [NoBody EXCEPT !.kind = "unauthorized"]))

\* A mounted feature router handles the request.
RunRouter(s) ==
    /\ At(s, "router")
    /\ ReqStep(s, [Responded(reqs[s], "router", 200, [NoBody EXCEPT !.kind = "router"])
                     EXCEPT !.handlerRan = TRUE])

\* A handler that passes q on as it is.
EffectiveQueryNoDefault(q) == q

\* const query = req.query.q || "period care products"
EffectiveQuery(q) ==
    IF q = Undefined \/ q = "" THEN "period care products" ELSE q

\* GET /api/products up to the await: one getJson call is issued.
RunProducts(s) ==
    /\ At(s, "products")
    /\ ReqStep(s, [Passed(reqs[s], "products") EXCEPT
                     !.st = "awaiting",
                     !.calls = Append(@, EffectiveQuery(reqs[s].q))])

\* A handler without the try/catch: what getJson throws, and the TypeError of
\* reading a field of null, leave the handler as an unhandled rejection.
ProductsSettleNoCatch(o) ==
    IF o.kind \in {"throw", "null"}
    THEN [status |-> 0, body |-> NoBody, logged |-> FALSE, uncaught |-> TRUE]
    ELSE [status |-> 200,
          body |-> [NoBody EXCEPT !.kind = "products",
                                  !.products = IF o.has THEN o.list ELSE << >>],
          logged |-> FALSE, uncaught |-> FALSE]

\* The rest of the handler, once getJson has settled with o: inside try,
\* res.json({ products: response.shopping_results || [] }); in catch,
\* console.error and res.status(500).json({ error: ... }).
ProductsSettle(o) ==
    IF o.kind \in {"throw", "null"}
    THEN [status |-> 500,
          body |-> [NoBody EXCEPT !.kind = "error", !.error = "Failed to fetch products"],
          logged |-> TRUE, uncaught |-> FALSE]
    ELSE [status |-> 200,
          body |-> [NoBody EXCEPT !.kind = "products",
                                  !.products = IF o.has THEN o.list ELSE << >>],
          logged |-> FALSE, uncaught |-> FALSE]

\* getJson settles and the handler resumes.  An unhandled rejection ends the
\* process.
ProviderSettles(s) ==
    /\ phase = "listening"
    /\ reqs[s].st = "awaiting"
    /\ \E o \in Outcomes :
         LET res == ProductsSettle(o)
             r == reqs[s] IN
         IF res.uncaught
         THEN /\ reqs' = [reqs EXCEPT ![s] = [r EXCEPT !.st = "aborted", !.outcome = o]]
              /\ phase' = "crashed"
              /\ exitCode' = 1
              /\ listenerOpen' = FALSE
         ELSE /\ reqs' = [reqs EXCEPT ![s] =
                            [r EXCEPT !.st = "done", !.outcome = o,
                                      !.status = res.status, !.by = "products",
                                      !.resBody = res.body, !.logged = res.logged]]
              /\ UNCHANGED << phase, exitCode, listenerOpen >>
    /\ UNCHANGED << variant, env, dbState, stack, bootLog >>
    /\ UNCHANGED bodyVars

\* No layer is left: Express answers 404.
NotFound(s) ==
    /\ phase = "listening"
    /\ reqs[s].st = "active"
    /\ reqs[s].idx = 0
    /\ ReqStep(s, [reqs[s] EXCEPT !.st = "done", !.status = 404, !.by = "notFound",
                                  !.resBody = [NoBody EXCEPT !.kind = "notFound"]])

\* The response has been sent; the request context is discarded.
Release(s) ==
    /\ reqs[s].st = "done"
    /\ ReqStep(s, Idle)

-----------------------------------------------------------------------------
(* Body capture: verify: (req, res, buf) => { req.rawBody = buf.toString(); } *)

\* '"', 'A', the lead byte C3, the continuation byte A9, and FF, which no
\* UTF-8 sequence holds.
ByteAlphabet == {34, 65, 195, 169, 255}

WireBodies == UNION { [1..n -> ByteAlphabet] : n \in 0..MaxBodyLen }

\* Buffer.prototype.toString(): UTF-8 decoding; every maximal ill-formed part
\* becomes U+FFFD.
RECURSIVE Utf8Decode(_)
Utf8Decode(b) ==
    IF b = << >> THEN << >>
    ELSE
      LET x == b[1]
          n == Len(b)
          rest(k) == SubSeq(b, k + 1, n)
          lo2 == IF x = 224 THEN 160 ELSE IF x = 240 THEN 144 ELSE 128
          hi2 == IF x = 237 THEN 159 ELSE IF x = 244 THEN 143 ELSE 191
          ok2 == n >= 2 /\ b[2] \in lo2..hi2
          ok3 == ok2 /\ n >= 3 /\ b[3] \in 128..191
          ok4 == ok3 /\ n >= 4 /\ b[4] \in 128..191
      IN
      IF x < 128 THEN << x >> \o Utf8Decode(rest(1))
      ELSE IF x \in 194..223 THEN
        IF ok2 THEN << (x - 192) * 64 + (b[2] - 128) >> \o Utf8Decode(rest(2))
        ELSE << 65533 >> \o Utf8Decode(rest(1))
      ELSE IF x \in 224..239 THEN
        IF ok3 THEN << (x - 224) * 4096 + (b[2] - 128) * 64 + (b[3] - 128) >>
                    \o Utf8Decode(rest(3))
        ELSE IF ok2 THEN << 65533 >> \o Utf8Decode(rest(2))
        ELSE << 65533 >> \o Utf8Decode(rest(1))
      ELSE IF x \in 240..244 THEN
        IF ok4 THEN << (x - 240) * 262144 + (b[2] - 128) * 4096
                       + (b[3] - 128) * 64 + (b[4] - 128) >>
                    \o Utf8Decode(rest(4))
        ELSE IF ok3 THEN << 65533 >> \o Utf8Decode(rest(3))
        ELSE IF ok2 THEN << 65533 >> \o Utf8Decode(rest(2))
        ELSE << 65533 >> \o Utf8Decode(rest(1))
      ELSE << 65533 >> \o Utf8Decode(rest(1))

\* The bytes of a string, as a signature check that is handed the string
\* hashes them.
RECURSIVE Utf8Encode(_)
Utf8Encode(s) ==
    IF s = << >> THEN << >>
    ELSE
      LET c == s[1] IN
      (IF c < 128 THEN << c >>
       ELSE IF c < 2048 THEN << 192 + (c \div 64), 128 + (c % 64) >>
       ELSE IF c < 65536
         THEN << 224 + (c \div 4096), 128 + ((c \div 64) % 64), 128 + (c % 64) >>
       ELSE << 240 + (c \div 262144), 128 + ((c \div 4096) % 64),
               128 + ((c \div 64) % 64), 128 + (c % 64) >>)
      \o Utf8Encode(Tail(s))

BufToString(buf) == Utf8Decode(buf)

\* The verify callback of express.json.
Verify ==
    /\ bodyStage = "received"
    /\ rawBody' = BufToString(wire)
    /\ bodyStage' = "captured"
    /\ UNCHANGED << wire, sigInput, reqs >>
    /\ UNCHANGED bootVars

\* A downstream signature check re-examines req.rawBody.
SignatureCheck ==
    /\ bodyStage = "captured"
    /\ sigInput' = Utf8Encode(rawBody)
    /\ bodyStage' = "checked"
    /\ UNCHANGED << wire, rawBody, reqs >>
    /\ UNCHANGED bootVars

-----------------------------------------------------------------------------
(* Specifications *)

BootInit ==
    /\ variant \in Variants
    /\ phase = "start"
    /\ exitCode = -1
    /\ dbState = "idle"
    /\ listenerOpen = FALSE
    /\ stack = << >>
    /\ bootLog = << "Checking environment variables" >>
    /\ reqs = [s \in Slots |-> Idle]

BodyOff ==
    /\ wire = << >>
    /\ rawBody = << >>
    /\ sigInput = << >>
    /\ bodyStage = "off"

Init ==
    /\ BootInit
    /\ env \in [EnvNames -> BOOLEAN]
    /\ BodyOff

\* Every environment value is set.
InitConc ==
    /\ BootInit
    /\ env = [n \in EnvNames |-> TRUE]
    /\ BodyOff

\* A listening process whose express.json layer has received a body.
InitBody ==
    /\ variant \in Variants
    /\ env = [n \in EnvNames |-> TRUE]
    /\ phase = "listening"
    /\ exitCode = -1
    /\ dbState = "connected"
    /\ listenerOpen = TRUE
    /\ stack = Middleware(variant) \o Routes(variant)
    /\ bootLog = << "Checking environment variables", "keys found", "Server running" >>
    /\ reqs = [s \in Slots |-> Idle]
    /\ wire \in WireBodies
    /\ rawBody = << >>
    /\ sigInput = << >>
    /\ bodyStage = "received"

Bootstrap ==
    \/ EnvCheck
    \/ RegisterMiddleware
    \/ MountRoutes
    \/ CallConnectDb
    \/ DbResolves
    \/ DbRejects
    \/ OnDbConnected
    \/ OnDbFailed

Handle(s) ==
    \/ RunHelmet(s)
    \/ RunFavicon(s)
    \/ RunJson(s)
    \/ RunCookieParser(s)
    \/ RunClerk(s)
    \/ RunCors(s)
    \/ RunHealth(s)
    \/ RunGate(s)
    \/ RunRouter(s)
    \/ RunProducts(s)
    \/ ProviderSettles(s)
    \/ NotFound(s)
    \/ Release(s)

Next ==
    \/ Bootstrap
    \/ \E s \in Slots : Arrive(s) \/ Handle(s)

NextConc ==
    \/ Bootstrap
    \/ \E s \in Slots : ArriveConcurrent(s) \/ Handle(s)

NextBody ==
    \/ Verify
    \/ SignatureCheck

Spec == Init /\ [][Next]_vars

SpecConc == InitConc /\ [][NextConc]_vars

SpecBody == InitBody /\ [][NextBody]_vars

-----------------------------------------------------------------------------
(* Properties *)

Live(r) == r.st # "idle"

Gated(r) ==
    \/ IsPrefix(<< "api", "period" >>, r.path)
    \/ IsPrefix(<< "api", "post" >>, r.path)

\* The position of layer kind k in a request's trace, 0 when it did not run.
Pos(trace, k) ==
    IF \E i \in 1..Len(trace) : trace[i] = k
    THEN CHOOSE i \in 1..Len(trace) : trace[i] = k
    ELSE 0

\* A value the environment check of the running variant requires is absent.
EnvMissing ==
    \/ variant = "index.js" /\ ~env["CLERK_SECRET_KEY"]
    \/ variant = "part_000"
       /\ (~env["VITE_CLERK_SECRET_KEY"] \/ ~env["VITE_CLERK_PUBLISHABLE_KEY"])

\* C1: when a required environment value is absent, the bootstrap never gets
\* past the environment check: once the check has run the process has exited
\* with status 1, connectDb is never called and the listener never opens.
C1_MissingEnvNeverListens ==
    EnvMissing =>
        /\ phase \in {"start", "fatal"}
        /\ phase = "fatal" => exitCode = 1
        /\ dbState = "idle"
        /\ ~listenerOpen

\* C1 witness: part_000 with the secret set and the publishable key absent has
\* exited with status 1.
C1_Witness ==
    /\ variant = "part_000"
    /\ env["VITE_CLERK_SECRET_KEY"]
    /\ ~env["VITE_CLERK_PUBLISHABLE_KEY"]
    /\ phase = "fatal"
    /\ exitCode = 1
    /\ ~listenerOpen

\* C2: the listener is open only when connectDb has resolved: no state has the
\* listener open while the connection is idle, pending or failed.
C2_ListenOnlyAfterDb ==
    (listenerOpen \/ phase = "listening") => dbState = "connected"

\* C2 witness: the listener is open after a resolved connect.
C2_Witness ==
    /\ listenerOpen
    /\ phase = "listening"
    /\ dbState = "connected"

\* C3: once the handler of a failed database connection has run, the bootstrap
\* is in Fatal: the process has exited with non-zero status.
C3_DbFailureIsFatal ==
    (dbState = "failed" /\ phase # "connectingDb") =>
        (phase = "fatal" /\ exitCode > 0)

\* C4 as stated: every answered request under a gated prefix without a valid
\* credential has status 401 and never ran the feature router.
C4_Original ==
    \A s \in Slots :
      LET r == reqs[s] IN
      (r.st = "done" /\ Gated(r) /\ r.cred # "valid") =>
          (r.status = 401 /\ ~r.handlerRan)

\* C4 amended: a request under a gated prefix without a valid credential never
\* runs the feature router; its status is 400 when the JSON parser rejects its
\* body, else 204 when it is an OPTIONS request the CORS layer answers, else
\* the gate's 401.
C4_GatedUnauthenticated ==
    \A s \in Slots :
      LET r == reqs[s] IN
      (Live(r) /\ Gated(r) /\ r.cred # "valid") =>
          /\ ~r.handlerRan
          /\ r.by # "router"
          /\ r.st = "done" =>
               /\ r.status = (IF r.body = "malformed" THEN 400
                              ELSE IF r.method = "OPTIONS" THEN 204 ELSE 401)
               /\ r.by = (IF r.body = "malformed" THEN "json"
                          ELSE IF r.method = "OPTIONS" THEN "cors" ELSE "gate")

\* C4 witness: the gate answered 401 to a request under /api/post that carried
\* an invalid credential.
C4_Witness ==
    \E s \in Slots :
      LET r == reqs[s] IN
      /\ r.st = "done"
      /\ IsPrefix(<< "api", "post" >>, r.path)
      /\ r.cred = "invalid"
      /\ r.by = "gate"
      /\ r.status = 401
      /\ ~r.handlerRan

\* C5: for a request under a gated prefix with a valid credential, the auth
\* provider's middleware ran before the gate, and the request carries the
\* identity from the gate on, so also when the feature router handles it.
C5_IdentityBeforeGate ==
    \A s \in Slots :
      LET r == reqs[s] IN
      (Live(r) /\ Gated(r) /\ r.cred = "valid" /\ Pos(r.trace, "gate") # 0) =>
          /\ Pos(r.trace, "clerk") # 0
          /\ Pos(r.trace, "clerk") < Pos(r.trace, "gate")
          /\ r.auth = "user"
          /\ r.by \in {"none", "router"}

\* C5 witness: a feature router handled a gated request that carried a valid
\* credential.
C5_Witness ==
    \E s \in Slots :
      LET r == reqs[s] IN
      /\ r.st = "done"
      /\ Gated(r)
      /\ r.cred = "valid"
      /\ r.by = "router"
      /\ r.handlerRan
      /\ r.auth = "user"

\* C6: every answer of the /health handler has status 200 and reports each
\* secret as configured exactly when the value the environment check of the
\* running variant tests is present.
C6_HealthTruthful ==
    \A s \in Slots :
      LET r == reqs[s] IN
      r.by = "health" =>
          /\ r.status = 200
          /\ r.resBody.clerkConfigured =
               (IF variant = "index.js" THEN env["CLERK_SECRET_KEY"]
                ELSE env["VITE_CLERK_SECRET_KEY"])
          /\ variant = "part_000" =>
               r.resBody.publishableKeyLoaded = env["VITE_CLERK_PUBLISHABLE_KEY"]

\* The request declares an origin that is none of the fixed origins nor the
\* configured frontend origin.
OffList(r) ==
    /\ r.origin # NoOrigin
    /\ r.origin \notin {"http://localhost:5173", "http://localhost:5174",
                        "https://api.clerk.dev"}
    /\ ~(env["FRONTEND_URL"] /\ r.origin = FrontendOrigin)

\* C7: a request whose declared origin is not on the allow-list never gets an
\* Access-Control-Allow-Origin header, whatever route it is for.
C7_NoEchoOffList ==
    \A s \in Slots :
      LET r == reqs[s] IN
      (Live(r) /\ OffList(r)) => (r.acao = NoHeader /\ r.acao # r.origin)

\* C7 witness: the public /health route answered 200, past the CORS layer, to
\* a request from the frontend origin while FRONTEND_URL is unset, with no
\* Access-Control-Allow-Origin header.
C7_Witness ==
    \E s \in Slots :
      LET r == reqs[s] IN
      /\ ~env["FRONTEND_URL"]
      /\ r.origin = FrontendOrigin
      /\ r.st = "done"
      /\ r.by = "health"
      /\ r.status = 200
      /\ Pos(r.trace, "cors") # 0
      /\ r.acao = NoHeader

ErrorBody == [NoBody EXCEPT !.kind = "error", !.error = "Failed to fetch products"]

ProductsBody(list) == [NoBody EXCEPT !.kind = "products", !.products = list]

\* C8 as stated: an answer of the /api/products handler follows exactly one
\* provider call, whose query is q when the parameter is present and the
\* default phrase when it is absent; a call that does not throw gives 200 with
\* the provider's list (the empty list when there is none), a call that throws
\* gives 500 with the fixed error body.
C8_Original ==
    \A s \in Slots :
      LET r == reqs[s] IN
      (r.st = "done" /\ r.by = "products") =>
          /\ Len(r.calls) = 1
          /\ r.calls[1] = (IF r.q = Undefined THEN "period care products" ELSE r.q)
          /\ r.outcome.kind # "throw" =>
               /\ r.status = 200
               /\ r.resBody = ProductsBody(IF r.outcome.has THEN r.outcome.list ELSE << >>)
          /\ r.outcome.kind = "throw" =>
               /\ r.status = 500
               /\ r.resBody = ErrorBody

\* C8 amended: the handler issues exactly one provider call, whose query is q
\* when q is present and not empty and the default phrase otherwise; a call
\* that resolves to an object gives 200 with its shopping_results list (the
\* empty list when it has none); a call that throws or resolves to null gives
\* 500 with the fixed error body.
C8_ProductsProxy ==
    \A s \in Slots :
      LET r == reqs[s] IN
      /\ (Live(r) /\ Pos(r.trace, "products") = 0) => r.calls = << >>
      /\ (Live(r) /\ Pos(r.trace, "products") # 0) =>
          /\ Len(r.calls) = 1
          /\ r.calls[1] = (IF r.q = Undefined \/ r.q = ""
                           THEN "period care products" ELSE r.q)
          /\ r.st \in {"awaiting", "done"}
          /\ r.st = "done" =>
               /\ r.by = "products"
               /\ r.outcome.kind = "object" =>
                    /\ r.status = 200
                    /\ r.resBody =
                         ProductsBody(IF r.outcome.has THEN r.outcome.list ELSE << >>)
               /\ r.outcome.kind \in {"throw", "null"} =>
                    /\ r.status = 500
                    /\ r.resBody = ErrorBody

\* C8 witness: a request with an empty q was sent to the provider with the
\* default phrase, the provider resolved to null and the answer is the 500.
C8_Witness ==
    \E s \in Slots :
      LET r == reqs[s] IN
      /\ r.st = "done"
      /\ r.by = "products"
      /\ r.q = ""
      /\ r.calls = << "period care products" >>
      /\ r.outcome.kind = "null"
      /\ r.status = 500
      /\ r.resBody = ErrorBody

\* C9: the bytes a downstream signature check reads from req.rawBody are the
\* bytes received on the wire.
C9_RawBodyByteIdentical ==
    bodyStage = "checked" => sigInput = wire

\* C10: once the process is listening it stays listening, with the listener
\* open and no exit status, through every step of every request; and a step
\* that changes one request's context changes no other's.
C10_ListeningForever ==
    [][ /\ phase = "listening" =>
             (phase' = "listening" /\ listenerOpen' /\ exitCode' = -1)
        /\ \A s, t \in Slots :
             (s # t /\ reqs'[s] # reqs[s]) => reqs'[t] = reqs[t] ]_vars

\* C10 witness: the process is listening, one /api/products request has been
\* answered 500 after a failed or null provider call, and a concurrent request
\* has been answered 200.
C10_Witness ==
    \E s, t \in Slots :
      /\ s # t
      /\ phase = "listening"
      /\ listenerOpen
      /\ reqs[s].st = "done"
      /\ reqs[s].by = "products"
      /\ reqs[s].outcome.kind \in {"throw", "null"}
      /\ reqs[s].status = 500
      /\ reqs[t].st = "done"
      /\ reqs[t].status = 200
=============================================================================
